---------------------------- MODULE Spec2Model ----------------------------
(***************************************************************************)
(* A model of analyze_metrics.py: the command-line entry point, the        *)
(* missing-file check, the parse of the CSV table, the printed summary     *)
(* statistics, the four chart panels, the saved image and the display.     *)
(*                                                                         *)
(* Numbers are exact rationals [kind |-> "num", n, d]; the value pandas    *)
(* calls NaN is [kind |-> "nan"]; the square root of a rational that is    *)
(* no perfect square is kept as [kind |-> "root", n, d].  Binary floating  *)
(* point rounding below the printed precision is not modelled.  The faults *)
(* modelled are read_csv's on a file without a header line, the KeyError   *)
(* of a missing column, and a failing display.                              *)
(***************************************************************************)
EXTENDS Integers, Sequences, FiniteSets, TLC

\* ------------------------------------------------------------------------
\* Numbers
\* ------------------------------------------------------------------------

Abs(i) == IF i < 0 THEN -i ELSE i

RECURSIVE Gcd(_, _)
Gcd(a, b) == IF b = 0 THEN a ELSE Gcd(b, a % b)

NaN == [kind |-> "nan", n |-> 0, d |-> 1]

\* The rational n/d in lowest terms with a positive denominator.
Rat(n, d) ==
    LET g == Gcd(Abs(n), Abs(d))
        s == IF d < 0 THEN -1 ELSE 1
    IN  [kind |-> "num", n |-> s * (n \div g), d |-> s * (d \div g)]

Int2Rat(i) == Rat(i, 1)

IsNum(a) == a.kind = "num"

Add(a, b) == Rat(a.n * b.d + b.n * a.d, a.d * b.d)

Sub(a, b) == Rat(a.n * b.d - b.n * a.d, a.d * b.d)

Mul(a, b) == Rat(a.n * b.n, a.d * b.d)

\* a / k for a positive integer k
DivInt(a, k) == Rat(a.n, a.d * k)

Less(a, b) == a.n * b.d < b.n * a.d

Leq(a, b) == a.n * b.d <= b.n * a.d

\* The largest r with r * r <= m, by bisection on lo..hi.
RECURSIVE ISqrtIn(_, _, _)
ISqrtIn(m, lo, hi) ==
    IF lo >= hi THEN lo
    ELSE LET mid == (lo + hi + 1) \div 2
         IN  IF mid * mid <= m THEN ISqrtIn(m, mid, hi)
             ELSE ISqrtIn(m, lo, mid - 1)

\* 46340 is the largest integer whose square fits a 32-bit integer.
ISqrt(m) == ISqrtIn(m, 0, IF m < 46340 THEN m ELSE 46340)

\* The square root of a non-negative rational: exact when numerator and
\* denominator are perfect squares, otherwise kept as a root.
Sqrt(a) ==
    LET rn == ISqrt(a.n)
        rd == ISqrt(a.d)
    IN  IF rn * rn = a.n /\ rd * rd = a.d THEN Rat(rn, rd)
        ELSE [kind |-> "root", n |-> a.n, d |-> a.d]

\* ------------------------------------------------------------------------
\* The statistics of a column (a sequence of numbers), as pandas reduces it
\* ------------------------------------------------------------------------

\* Series.sum(): the running total from 0; 0 for an empty column.
RECURSIVE SeriesSum(_)
SeriesSum(s) ==
    IF s = <<>> THEN Int2Rat(0)
    ELSE Add(SeriesSum(SubSeq(s, 1, Len(s) - 1)), s[Len(s)])

\* Series.mean(): sum / count; NaN for an empty column.
SeriesMean(s) ==
    IF Len(s) = 0 THEN NaN ELSE DivInt(SeriesSum(s), Len(s))

\* Series.min(): NaN for an empty column.
RECURSIVE SeriesMin(_)
SeriesMin(s) ==
    IF s = <<>> THEN NaN
    ELSE IF Len(s) = 1 THEN s[1]
    ELSE LET m == SeriesMin(Tail(s))
         IN  IF Less(m, s[1]) THEN m ELSE s[1]

\* Series.max(): NaN for an empty column.
RECURSIVE SeriesMax(_)
SeriesMax(s) ==
    IF s = <<>> THEN NaN
    ELSE IF Len(s) = 1 THEN s[1]
    ELSE LET m == SeriesMax(Tail(s))
         IN  IF Less(s[1], m) THEN m ELSE s[1]

\* Insertion of x into an ascending sequence.
RECURSIVE Insert(_, _)
Insert(x, s) ==
    IF s = <<>> THEN <<x>>
    ELSE IF Leq(x, s[1]) THEN <<x>> \o s
    ELSE <<s[1]>> \o Insert(x, Tail(s))

RECURSIVE SortAsc(_)
SortAsc(s) == IF s = <<>> THEN <<>> ELSE Insert(s[1], SortAsc(Tail(s)))

\* Series.median(): the middle of the sorted values, the mean of the two
\* middle ones for an even count; NaN for an empty column.
SeriesMedian(s) ==
    LET t == SortAsc(s)
        k == Len(s)
    IN  IF k = 0 THEN NaN
        ELSE IF k % 2 = 1 THEN t[(k + 1) \div 2]
        ELSE DivInt(Add(t[k \div 2], t[k \div 2 + 1]), 2)

\* A variant of SumSqDev that squares the values, not their deviations.
RECURSIVE SumSqRaw(_, _)
SumSqRaw(s, avg) ==
    IF s = <<>> THEN Int2Rat(0)
    ELSE Add(Mul(s[1], s[1]), SumSqRaw(Tail(s), avg))

\* The sum of the squared deviations of s from avg.
RECURSIVE SumSqDev(_, _)
SumSqDev(s, avg) ==
    IF s = <<>> THEN Int2Rat(0)
    ELSE LET dev == Sub(avg, s[1])
         IN  Add(Mul(dev, dev), SumSqDev(Tail(s), avg))

\* The delta degrees of freedom Series.std() uses by default.
Ddof == 1

\* A variant of SeriesStd with the population denominator N (ddof = 0).
SeriesStdPopulation(s) ==
    IF Len(s) <= 0 THEN NaN
    ELSE Sqrt(DivInt(SumSqDev(s, SeriesMean(s)), Len(s)))

\* Series.std(): sqrt(sum((avg - x)^2) / (count - ddof)); NaN when
\* count - ddof <= 0.
SeriesStd(s) ==
    IF Len(s) - Ddof <= 0 THEN NaN
    ELSE Sqrt(DivInt(SumSqDev(s, SeriesMean(s)), Len(s) - Ddof))

\* ------------------------------------------------------------------------
\* Formatting of a replacement field of an f-string
\* ------------------------------------------------------------------------

RECURSIVE Pow10(_)
Pow10(p) == IF p = 0 THEN 1 ELSE 10 * Pow10(p - 1)

\* A variant of Precision that gives every fixed-point field 2 digits.
PrecisionTwo(fmt) == IF fmt = "" THEN 0 ELSE 2

\* Digits after the point that a format specification asks for.
Precision(fmt) == IF fmt = ".2f" THEN 2 ELSE IF fmt = ".3f" THEN 3 ELSE 0

\* The p decimal digits of f, most significant first (0 <= f < 10^p).
RECURSIVE Digits(_, _)
Digits(f, p) ==
    IF p = 0 THEN <<>> ELSE Append(Digits(f \div 10, p - 1), f % 10)

\* The nearest integer to m/d (m >= 0, d > 0), a tie going to the even one.
RoundHalfEven(m, d) ==
    LET q == m \div d
        r == m % d
    IN  IF 2 * r > d THEN q + 1
        ELSE IF 2 * r < d THEN q
        ELSE IF q % 2 = 0 THEN q ELSE q + 1

\* The nearest integer to 10^p * v for a finite v >= 0 or v < 0 (by its
\* magnitude); for a root, (floor(sqrt(4 * 10^(2p) * n / d)) + 1) div 2.
Scaled(v, p) ==
    IF v.kind = "root"
    THEN (ISqrt((4 * Pow10(p) * Pow10(p) * v.n) \div v.d) + 1) \div 2
    ELSE RoundHalfEven(Abs(v.n) * Pow10(p), v.d)

FixedText(neg, k, p) ==
    [nan |-> FALSE, neg |-> neg, whole |-> k \div Pow10(p),
     frac |-> Digits(k % Pow10(p), p)]

\* format(v, ".Nf"): "nan" for NaN, else sign, whole part and exactly N
\* digits after the point.
FormatFixed(v, fmt) ==
    IF v.kind = "nan"
    THEN [nan |-> TRUE, neg |-> FALSE, whole |-> 0, frac |-> <<>>]
    ELSE FixedText(v.kind = "num" /\ v.n < 0, Scaled(v, Precision(fmt)),
                   Precision(fmt))

\* str(i) of a non-negative integer: no point, no fraction digits.
FormatInt(i) == [nan |-> FALSE, neg |-> FALSE, whole |-> i, frac |-> <<>>]

\* ------------------------------------------------------------------------
\* Input files
\* ------------------------------------------------------------------------

\* Largest number of data rows of an input table.
MaxRows == 3

\* The required columns, in the order of the header row.
AllColumns ==
    <<"Step", "Size(MB)", "Time(s)", "Throughput(MB/s)", "Throughput(Mbps)">>

\* One measured transfer: <<size in MB, time in s>>.
Measurements ==
    { <<Int2Rat(10), Int2Rat(1)>>,
      <<Int2Rat(20), Int2Rat(2)>>,
      <<Int2Rat(10), Rat(1, 2)>> }

\* The CSV line of step i: step, size, time, size/time MB/s, 8*size/time Mbps.
RowLine(i, m) ==
    LET tput == Rat(m[1].n * m[2].d, m[1].d * m[2].n)
    IN  <<Int2Rat(i), m[1], m[2], tput, Mul(Int2Rat(8), tput)>>

\* A file is its header (the column names) and the lines after it, each a
\* sequence of fields; <<>> is a blank line.
TableFile(ms, blankEnd) ==
    [header |-> AllColumns,
     lines  |-> [i \in 1..Len(ms) |-> RowLine(i, ms[i])]
                \o (IF blankEnd THEN << <<>> >> ELSE <<>>)]

WellFormedFiles ==
    { TableFile(ms, b) :
        ms \in UNION { [1..k -> Measurements] : k \in 0..MaxRows },
        b \in BOOLEAN }

Index(seq, x) == CHOOSE i \in 1..Len(seq) : seq[i] = x

Without(seq, j) == [i \in 1..(Len(seq) - 1) |-> IF i < j THEN seq[i] ELSE seq[i + 1]]

\* The file f written without column c.
DropColumn(f, c) ==
    LET j == Index(f.header, c)
    IN  [header |-> Without(f.header, j),
         lines  |-> [i \in 1..Len(f.lines) |->
                        IF f.lines[i] = <<>> THEN <<>>
                        ELSE Without(f.lines[i], j)]]

\* A file of zero bytes.
EmptyFile == [header |-> <<>>, lines |-> <<>>]

Range(seq) == { seq[i] : i \in 1..Len(seq) }

Files ==
    WellFormedFiles
    \cup { DropColumn(f, c) : f \in WellFormedFiles, c \in Range(AllColumns) }
    \cup { EmptyFile }

\* sys.argv: the script's name, then the arguments given.
ArgLists ==
    { <<"analyze_metrics.py">>,
      <<"analyze_metrics.py", "run_a.csv">>,
      <<"analyze_metrics.py", "run_a.csv", "run_b.csv">>,
      <<"analyze_metrics.py", "run_b.csv", "run_a.csv">> }

\* ------------------------------------------------------------------------
\* The dataframe
\* ------------------------------------------------------------------------

IsBlank(l) == l = <<>>

\* pd.read_csv: the first line names the columns, blank lines are skipped,
\* every other line is a row.
pd_read_csv(f) ==
    [columns |-> f.header,
     rows    |-> SelectSeq(f.lines, LAMBDA l : ~IsBlank(l))]

\* A variant of DfLen that counts the columns, not the rows.
DfLenColumns(d) == Len(d.columns)

\* len(df)
DfLen(d) == Len(d.rows)

HasColumn(d, c) == c \in Range(d.columns)

\* df[c]
Column(d, c) ==
    [i \in 1..Len(d.rows) |-> d.rows[i][Index(d.columns, c)]]

Reduce(stat, s) ==
    CASE stat = "sum"    -> SeriesSum(s)
      [] stat = "mean"   -> SeriesMean(s)
      [] stat = "median" -> SeriesMedian(s)
      [] stat = "min"    -> SeriesMin(s)
      [] stat = "max"    -> SeriesMax(s)
      [] stat = "std"    -> SeriesStd(s)

\* ------------------------------------------------------------------------
\* The statements of analyze_metrics
\* ------------------------------------------------------------------------

Field(col, stat, fmt) == [col |-> col, stat |-> stat, fmt |-> fmt]

PrintStmt(line, label, fields) ==
    [line |-> line, label |-> label, fields |-> fields]

\* The print statements of the summary, each with its literal text and its
\* replacement fields {df[col].stat():fmt}.  Lines 24-29: the banner, the
\* row count and the two totals.
TotalsStmts ==
    << PrintStmt(24, "====", <<>>),
       PrintStmt(25, "ADIOS2 Transfer Performance Summary", <<>>),
       PrintStmt(26, "====", <<>>),
       PrintStmt(27, "Total steps: {}", << Field("", "len", "") >>),
       PrintStmt(28, "Total data transferred: {} MB",
                 << Field("Size(MB)", "sum", ".2f") >>),
       PrintStmt(29, "Total time: {} seconds",
                 << Field("Time(s)", "sum", ".2f") >>) >>

\* Lines 30-35: the throughput statistics.
ThroughputStmts ==
    << PrintStmt(30, "Throughput Statistics:", <<>>),
       PrintStmt(31, "  Average: {} MB/s ({} Mbps)",
                 << Field("Throughput(MB/s)", "mean", ".2f"),
                    Field("Throughput(Mbps)", "mean", ".2f") >>),
       PrintStmt(32, "  Median:  {} MB/s ({} Mbps)",
                 << Field("Throughput(MB/s)", "median", ".2f"),
                    Field("Throughput(Mbps)", "median", ".2f") >>),
       PrintStmt(33, "  Min:     {} MB/s ({} Mbps)",
                 << Field("Throughput(MB/s)", "min", ".2f"),
                    Field("Throughput(Mbps)", "min", ".2f") >>),
       PrintStmt(34, "  Max:     {} MB/s ({} Mbps)",
                 << Field("Throughput(MB/s)", "max", ".2f"),
                    Field("Throughput(Mbps)", "max", ".2f") >>),
       PrintStmt(35, "  Std Dev: {} MB/s",
                 << Field("Throughput(MB/s)", "std", ".2f") >>) >>

\* Lines 36-40: the transfer time statistics and the closing rule.
TimeStmts ==
    << PrintStmt(36, "Transfer Time Statistics:", <<>>),
       PrintStmt(37, "  Average: {} seconds",
                 << Field("Time(s)", "mean", ".3f") >>),
       PrintStmt(38, "  Min:     {} seconds",
                 << Field("Time(s)", "min", ".3f") >>),
       PrintStmt(39, "  Max:     {} seconds",
                 << Field("Time(s)", "max", ".3f") >>),
       PrintStmt(40, "====", <<>>) >>

\* A variant of SummaryStmts with the time statistics printed before the
\* throughput statistics.
SummaryStmtsTimeFirst == TotalsStmts \o TimeStmts \o ThroughputStmts

\* The summary's print statements in program order.
SummaryStmts == TotalsStmts \o ThroughputStmts \o TimeStmts

PlotStmt(line, axes, kind, cols, stat, bins) ==
    [line |-> line, axes |-> axes, kind |-> kind, cols |-> cols,
     stat |-> stat, bins |-> bins]

\* The plotting statements, in program order: the panel drawn on, the call,
\* the columns it reads and the statistic a reference line is drawn at.
PlotStmts ==
    << PlotStmt(43, <<>>, "subplots", <<>>, "", 0),
       PlotStmt(47, <<0, 0>>, "plot", <<"Step", "Throughput(MB/s)">>, "", 0),
       PlotStmt(48, <<0, 0>>, "axhline", <<"Throughput(MB/s)">>, "mean", 0),
       PlotStmt(50, <<0, 0>>, "decorate", <<>>, "", 0),
       PlotStmt(57, <<0, 1>>, "plot", <<"Step", "Throughput(Mbps)">>, "", 0),
       PlotStmt(58, <<0, 1>>, "axhline", <<"Throughput(Mbps)">>, "mean", 0),
       PlotStmt(60, <<0, 1>>, "decorate", <<>>, "", 0),
       PlotStmt(67, <<1, 0>>, "bar", <<"Step", "Time(s)">>, "", 0),
       PlotStmt(68, <<1, 0>>, "axhline", <<"Time(s)">>, "mean", 0),
       PlotStmt(70, <<1, 0>>, "decorate", <<>>, "", 0),
       PlotStmt(77, <<1, 1>>, "hist", <<"Throughput(MB/s)">>, "", 15),
       PlotStmt(78, <<1, 1>>, "axvline", <<"Throughput(MB/s)">>, "mean", 0),
       PlotStmt(80, <<1, 1>>, "axvline", <<"Throughput(MB/s)">>, "median", 0),
       PlotStmt(82, <<1, 1>>, "decorate", <<>>, "", 0),
       PlotStmt(88, <<>>, "tight_layout", <<>>, "", 0) >>

\* The value and the text of one replacement field.
EvalField(d, f) ==
    LET v == IF f.stat = "len" THEN Int2Rat(DfLen(d))
             ELSE Reduce(f.stat, Column(d, f.col))
    IN  [col |-> f.col, stat |-> f.stat, fmt |-> f.fmt, val |-> v,
         text |-> IF f.fmt = "" THEN FormatInt(DfLen(d))
                  ELSE FormatFixed(v, f.fmt)]

\* The columns a summary statement reads, in the order it reads them.
FieldCols(st) ==
    LET fs == SelectSeq(st.fields, LAMBDA f : f.col # "")
    IN  [i \in 1..Len(fs) |-> fs[i].col]

\* A variant of RaisesKeyError that checks the whole schema at every
\* statement, whatever columns it reads.
RaisesKeyErrorEager(d, cols) == Range(AllColumns) \ Range(d.columns) # {}

\* df[c] raises KeyError when some column read is not in the table.
RaisesKeyError(d, cols) == \E i \in 1..Len(cols) : ~HasColumn(d, cols[i])

\* The line a summary statement prints.
Printed(d, st) ==
    [line |-> st.line, label |-> st.label, arg |-> "",
     fields |-> [i \in 1..Len(st.fields) |-> EvalField(d, st.fields[i])]]

\* The line of a print without replacement fields but the one string arg.
PrintedText(line, label, arg) ==
    [line |-> line, label |-> label, arg |-> arg, fields |-> <<>>]

\* What a plotting statement draws.
Drawn(d, st) ==
    [line |-> st.line, axes |-> st.axes, kind |-> st.kind, bins |-> st.bins,
     series |-> IF st.stat = "" THEN [i \in 1..Len(st.cols) |-> Column(d, st.cols[i])]
                ELSE <<>>,
     at |-> IF st.stat = "" THEN NaN ELSE Reduce(st.stat, Column(d, st.cols[1]))]

\* The csv_file parameter's default, and the path of the main block.
DefaultCsv == "transfer_metrics.csv"

output_file == "transfer_performance.png"

\* A variant of MainPath that takes the last element of sys.argv.
MainPathLast(args) == args[Len(args)]

\* The main block's choice of the path: sys.argv[1] if len(sys.argv) > 1.
\* sys.argv[0] is argv[1] here, sys.argv[1] is argv[2].
MainPath(args) == IF Len(args) > 1 THEN args[2] ELSE DefaultCsv

\* A variant of NextPc with show() called before savefig().
NextPcShowFirst(p) ==
    CASE p = "plot"  -> "show"
      [] p = "show"  -> "save"
      [] p = "save"  -> "saved"
      [] p = "saved" -> "done"

\* The statement that follows, from the end of the plotting block on:
\* tight_layout, savefig, the message, show, return.
NextPc(p) ==
    CASE p = "plot"  -> "save"
      [] p = "save"  -> "saved"
      [] p = "saved" -> "show"
      [] p = "show"  -> "done"

\* ------------------------------------------------------------------------
\* State
\* ------------------------------------------------------------------------

VARIABLES
    argv,      \* sys.argv
    pc,        \* where the run is
    idx,       \* the next statement of the summary or of the plotting block
    csv_file,  \* analyze_metrics' parameter
    exists,    \* os.path.exists(csv_file): "unknown" until asked
    opened,    \* the paths read_csv was called on
    file,      \* the content read_csv found there
    df,        \* the dataframe
    out,       \* the lines printed to standard output
    fig,       \* what has been drawn on the figure
    written,   \* the image files written
    shown,     \* whether plt.show() was called
    error      \* the exception that ended the run, "" when none

vars == <<argv, pc, idx, csv_file, exists, opened, file, df, out, fig,
          written, shown, error>>

NoDf == [columns |-> <<>>, rows |-> <<>>]

Init ==
    /\ argv \in ArgLists
    /\ pc = "main"
    /\ idx = 1
    /\ csv_file = ""
    /\ exists = "unknown"
    /\ opened = <<>>
    /\ file = EmptyFile
    /\ df = NoDf
    /\ out = <<>>
    /\ fig = <<>>
    /\ written = <<>>
    /\ shown = FALSE
    /\ error = ""

\* Lines 98-100: the main block calls analyze_metrics with the path.
Main ==
    /\ pc = "main"
    /\ csv_file' = MainPath(argv)
    /\ pc' = "exists"
    /\ UNCHANGED <<argv, idx, exists, opened, file, df, out, fig, written, shown, error>>

\* A variant of MissingFile without the return: the messages, then on to
\* read_csv.
MissingFileNoReturn ==
    /\ pc = "exists"
    /\ exists' = "no"
    /\ out' = out \o << PrintedText(16, "Error: {} not found!", csv_file),
                        PrintedText(17, "Make sure to run the receiver first to generate metrics.", "") >>
    /\ pc' = "read"
    /\ UNCHANGED <<argv, idx, csv_file, opened, file, df, fig, written, shown, error>>

\* Lines 15-18: the path does not exist: two messages, then return.
MissingFile ==
    /\ pc = "exists"
    /\ exists' = "no"
    /\ out' = out \o << PrintedText(16, "Error: {} not found!", csv_file),
                        PrintedText(17, "Make sure to run the receiver first to generate metrics.", "") >>
    /\ pc' = "done"
    /\ UNCHANGED <<argv, idx, csv_file, opened, file, df, fig, written, shown, error>>

\* Line 15: the path exists.
FileFound ==
    /\ pc = "exists"
    /\ exists' = "yes"
    /\ pc' = "read"
    /\ UNCHANGED <<argv, idx, csv_file, opened, file, df, out, fig, written, shown, error>>

\* Line 21: read_csv raises on a file without a header line, else parses.
ReadCsv ==
    /\ pc = "read"
    /\ opened' = Append(opened, csv_file)
    /\ \E f \in Files :
         /\ file' = f
         /\ IF f.header = <<>>
            THEN /\ pc' = "fault"
                 /\ error' = "EmptyDataError"
                 /\ UNCHANGED <<df, idx>>
            ELSE /\ df' = pd_read_csv(f)
                 /\ pc' = "summary"
                 /\ idx' = 1
                 /\ UNCHANGED error
    /\ UNCHANGED <<argv, csv_file, exists, out, fig, written, shown>>

\* A variant of PrintSummary that skips a line whose f-string raises and
\* goes on with the next statement.
PrintSummarySkipping ==
    /\ pc = "summary"
    /\ LET st == SummaryStmts[idx]
       IN  /\ out' = IF RaisesKeyError(df, FieldCols(st)) THEN out
                     ELSE Append(out, Printed(df, st))
           /\ IF idx < Len(SummaryStmts)
              THEN idx' = idx + 1 /\ pc' = pc
              ELSE idx' = 1 /\ pc' = "plot"
    /\ UNCHANGED <<argv, csv_file, exists, opened, file, df, fig, written, shown, error>>

\* Lines 24-40: one print of the summary; the f-string is evaluated before
\* anything is printed, so a KeyError prints nothing of the line.
PrintSummary ==
    /\ pc = "summary"
    /\ LET st == SummaryStmts[idx]
       IN  IF RaisesKeyError(df, FieldCols(st))
           THEN /\ pc' = "fault"
                /\ error' = "KeyError"
                /\ UNCHANGED <<out, idx>>
           ELSE /\ out' = Append(out, Printed(df, st))
                /\ IF idx < Len(SummaryStmts)
                   THEN idx' = idx + 1 /\ pc' = pc
                   ELSE idx' = 1 /\ pc' = "plot"
                /\ UNCHANGED error
    /\ UNCHANGED <<argv, csv_file, exists, opened, file, df, fig, written, shown>>

\* Lines 43-88: one plotting statement.
Plot ==
    /\ pc = "plot"
    /\ LET st == PlotStmts[idx]
       IN  IF RaisesKeyError(df, st.cols)
           THEN /\ pc' = "fault"
                /\ error' = "KeyError"
                /\ UNCHANGED <<fig, idx>>
           ELSE /\ fig' = Append(fig, Drawn(df, st))
                /\ IF idx < Len(PlotStmts)
                   THEN idx' = idx + 1 /\ pc' = pc
                   ELSE idx' = 1 /\ pc' = NextPc(pc)
                /\ UNCHANGED error
    /\ UNCHANGED <<argv, csv_file, exists, opened, file, df, out, written, shown>>

\* Lines 91-92: the figure is saved.
SaveFig ==
    /\ pc = "save"
    /\ written' = Append(written, [name |-> output_file, dpi |-> 300,
                                   artists |-> Len(fig)])
    /\ pc' = NextPc(pc)
    /\ UNCHANGED <<argv, idx, csv_file, exists, opened, file, df, out, fig, shown, error>>

\* Line 93: the message naming the saved file.
PrintSaved ==
    /\ pc = "saved"
    /\ out' = Append(out, PrintedText(93, "Performance plot saved to: {}", output_file))
    /\ pc' = NextPc(pc)
    /\ UNCHANGED <<argv, idx, csv_file, exists, opened, file, df, fig, written, shown, error>>

\* Line 96: the figure is displayed, or the display fails.
Show ==
    /\ pc = "show"
    /\ shown' = TRUE
    /\ \E ok \in BOOLEAN :
         IF ok THEN pc' = NextPc(pc) /\ UNCHANGED error
         ELSE pc' = "fault" /\ error' = "DisplayError"
    /\ UNCHANGED <<argv, idx, csv_file, exists, opened, file, df, out, fig, written>>

Next ==
    \/ Main
    \/ MissingFile
    \/ FileFound
    \/ ReadCsv
    \/ PrintSummary
    \/ Plot
    \/ SaveFig
    \/ PrintSaved
    \/ Show

Spec == Init /\ [][Next]_vars

\* ------------------------------------------------------------------------
\* What the properties speak of
\* ------------------------------------------------------------------------

\* The source lines of the summary's print statements.
SummaryLines == <<24, 25, 26, 27, 28, 29, 30, 31, 32, 33, 34, 35, 36, 37, 38, 39, 40>>

OutLines == [i \in 1..Len(out) |-> out[i].line]

IsPrefix(a, b) == Len(a) <= Len(b) /\ a = SubSeq(b, 1, Len(a))

\* The whole summary has been printed.
SummaryDone == IsPrefix(SummaryLines, OutLines)

\* The image file has been written.
ImageSaved == written # <<>>

HasLine(l) == \E i \in 1..Len(out) : out[i].line = l

LineOf(l) == out[CHOOSE i \in 1..Len(out) : out[i].line = l]

RECURSIVE FieldsOf(_)
FieldsOf(ls) == IF ls = <<>> THEN <<>> ELSE ls[1].fields \o FieldsOf(Tail(ls))

\* Every replacement field printed so far, in the order printed.
AllFields == FieldsOf(out)

PrintedOrder == [i \in 1..Len(AllFields) |-> <<AllFields[i].col, AllFields[i].stat>>]

\* The data rows of the input file, and one column of them, read off the
\* file itself.
InputRows == SelectSeq(file.lines, LAMBDA l : l # <<>>)

RowCount == Cardinality({ i \in 1..Len(file.lines) : file.lines[i] # <<>> })

InputColumn(c) ==
    LET j == CHOOSE k \in 1..Len(file.header) : file.header[k] = c
    IN  [i \in 1..Len(InputRows) |-> InputRows[i][j]]

\* The file read lacks column c and no other.
LacksOnly(c) ==
    /\ opened # <<>>
    /\ Len(file.header) = Len(AllColumns) - 1
    /\ Range(file.header) = Range(AllColumns) \ {c}

FullHeader == opened # <<>> /\ file.header = AllColumns

\* --- the standard definitions, by recomputation from a column ----------

RECURSIVE Total(_)
Total(col) == IF col = <<>> THEN Int2Rat(0) ELSE Add(col[1], Total(Tail(col)))

RECURSIVE TotalSq(_)
TotalSq(col) ==
    IF col = <<>> THEN Int2Rat(0) ELSE Add(Mul(col[1], col[1]), TotalSq(Tail(col)))

\* The k-th smallest value of col: fewer than k values lie below it, and at
\* least k are no larger.
OrderStat(col, k) ==
    CHOOSE x \in Range(col) :
        /\ Cardinality({ i \in 1..Len(col) : Less(col[i], x) }) < k
        /\ Cardinality({ i \in 1..Len(col) : Leq(col[i], x) }) >= k

IsSum(v, col) == v = Total(col)

IsMean(v, col) ==
    IF Len(col) = 0 THEN v = NaN
    ELSE IsNum(v) /\ Mul(v, Int2Rat(Len(col))) = Total(col)

IsMin(v, col) ==
    IF Len(col) = 0 THEN v = NaN
    ELSE v \in Range(col) /\ \A x \in Range(col) : Leq(v, x)

IsMax(v, col) ==
    IF Len(col) = 0 THEN v = NaN
    ELSE v \in Range(col) /\ \A x \in Range(col) : Leq(x, v)

IsMedian(v, col) ==
    LET k == Len(col)
    IN  IF k = 0 THEN v = NaN
        ELSE IF k % 2 = 1 THEN v = OrderStat(col, (k + 1) \div 2)
        ELSE IsNum(v) /\ Add(v, v) = Add(OrderStat(col, k \div 2),
                                         OrderStat(col, k \div 2 + 1))

SquareOf(v) == IF v.kind = "root" THEN Rat(v.n, v.d) ELSE Mul(v, v)

\* v^2 = (N * sum(x^2) - sum(x)^2) / (N * (N - 1)), v >= 0; undefined (NaN)
\* when N - 1 is not positive.
IsSampleStd(v, col) ==
    LET k == Len(col)
    IN  IF k <= 1 THEN v = NaN
        ELSE /\ v.kind \in {"num", "root"}
             /\ v.n >= 0
             /\ Mul(SquareOf(v), Int2Rat(k * (k - 1)))
                  = Sub(Mul(Int2Rat(k), TotalSq(col)), Mul(Total(col), Total(col)))

IsStat(stat, v, col) ==
    CASE stat = "sum"    -> IsSum(v, col)
      [] stat = "mean"   -> IsMean(v, col)
      [] stat = "median" -> IsMedian(v, col)
      [] stat = "min"    -> IsMin(v, col)
      [] stat = "max"    -> IsMax(v, col)
      [] stat = "std"    -> IsSampleStd(v, col)

\* The integer a printed text shows once its point is removed.
TextUnits(t) ==
    LET RECURSIVE Val(_)
        Val(ds) == IF ds = <<>> THEN t.whole
                   ELSE 10 * Val(SubSeq(ds, 1, Len(ds) - 1)) + ds[Len(ds)]
    IN  Val(t.frac)

\* The printed text t is v to within half a unit of its last digit.
TextNear(t, v) ==
    LET p == Len(t.frac)
        u == TextUnits(t)
    IN  IF v.kind = "nan" THEN t.nan
        ELSE /\ ~t.nan
             /\ IF v.kind = "num"
                THEN 2 * Abs(u * v.d - Abs(v.n) * Pow10(p)) <= v.d
                ELSE /\ (2 * u - 1) * (2 * u - 1) * v.d <= 4 * Pow10(p) * Pow10(p) * v.n
                     /\ 4 * Pow10(p) * Pow10(p) * v.n <= (2 * u + 1) * (2 * u + 1) * v.d

\* ------------------------------------------------------------------------
\* Properties
\* ------------------------------------------------------------------------

\* C1: when the input path does not exist, the run prints the error message
\* and the hint, returns normally (no exception), prints no statistics,
\* reads nothing and writes no image file.
C1_MissingFileReported ==
    exists = "no" =>
        /\ pc = "done"
        /\ error = ""
        /\ out = << PrintedText(16, "Error: {} not found!", csv_file),
                    PrintedText(17, "Make sure to run the receiver first to generate metrics.", "") >>
        /\ \A i \in 1..Len(out) : out[i].line \notin Range(SummaryLines)
        /\ ~SummaryDone
        /\ ~ImageSaved
        /\ opened = <<>>
        /\ fig = <<>>
        /\ ~shown

\* Reached: a missing run_b.csv reported, the run returned.
C1_Witness ==
    exists = "no" /\ pc = "done" /\ Len(out) = 2 /\ out[1].arg = "run_b.csv"

\* C2: every sum, mean, median, min and max printed for a column is the
\* value recomputed from that column of the input rows by the standard
\* definition, the standard deviation is the sample standard deviation
\* (denominator N - 1), and the text printed is that value rounded to the
\* digits shown.
C2_StatsMatchRecomputation ==
    FullHeader =>
        \A i \in 1..Len(AllFields) :
            LET f == AllFields[i]
            IN  f.stat # "len" =>
                    /\ IsStat(f.stat, f.val, InputColumn(f.col))
                    /\ TextNear(f.text, f.val)

\* Reached: a finished summary of three rows whose standard deviation is irrational and whose median differs from the mean.
C2_Witness ==
    /\ FullHeader
    /\ SummaryDone
    /\ RowCount = 3
    /\ LineOf(35).fields[1].val.kind = "root"
    /\ LineOf(32).fields[1].val # LineOf(31).fields[1].val

\* C3: the row count printed as 'Total steps' is the number N of data rows
\* of the table, N = 0 included.
C3_RowCountPrinted ==
    HasLine(27) =>
        LET t == LineOf(27).fields[1].text
        IN  /\ ~t.nan /\ ~t.neg
            /\ t.whole = RowCount
            /\ t.frac = <<>>

\* Reached: 'Total steps' printed for a table of no rows.
C3_Witness == FullHeader /\ HasLine(27) /\ RowCount = 0

\* C4: the table is parsed before anything of the summary is printed, the
\* whole summary is printed before the figure is written, the figure is
\* written at most once and exactly once in a run that returns, under the
\* fixed name, and display is attempted only after it is written: a failed
\* display leaves the image written.
C4_SaveBeforeShow ==
    /\ (exists = "yes" /\ out # <<>>) => opened = <<csv_file>>
    /\ Len(opened) <= 1
    /\ Len(written) <= 1
    /\ ImageSaved => (SummaryDone /\ written[1].name = output_file
                       /\ written[1].artists = Len(PlotStmts))
    /\ (pc = "show" \/ shown) => Len(written) = 1
    /\ HasLine(93) => Len(written) = 1
    /\ (pc = "done" /\ exists = "yes") => (Len(written) = 1 /\ shown)
    /\ error = "DisplayError" => (Len(written) = 1 /\ shown)

\* Reached: the display failed after the image was written.
C4_Witness ==
    FullHeader /\ pc = "fault" /\ error = "DisplayError" /\ Len(written) = 1

\* The run has ended.
Ended == pc \in {"done", "fault"}

\* The full report: the whole summary and the image file.
FullReport == SummaryDone /\ Len(written) = 1

\* C5 as stated: once the missing-file check has passed, a run ends either
\* with the full report, or faulted with no part of the report produced.
C5_NoPartialOutput ==
    (exists = "yes" /\ Ended) =>
        \/ FullReport
        \/ (pc = "fault" /\ out = <<>> /\ ~ImageSaved)

\* C5, amended: once the missing-file check has passed, a run that returns
\* has produced the full report; a run that faults keeps what was printed
\* before the faulting statement, which is a prefix of the summary (all of
\* it when the fault is in the plotting block), and has written no image
\* unless the fault is the display's.
C5_PartialOutputOnFault ==
    (exists = "yes" /\ Ended) =>
        /\ pc = "done" => (FullReport /\ error = "")
        /\ pc = "fault" =>
             /\ error \in {"EmptyDataError", "KeyError", "DisplayError"}
             /\ error = "EmptyDataError" => (out = <<>> /\ ~ImageSaved)
             /\ error = "KeyError" =>
                  (IsPrefix(OutLines, SummaryLines) /\ ~ImageSaved)
             /\ error = "DisplayError" => FullReport

\* Reached: a fault at line 29 with five lines of the summary printed.
C5_Witness ==
    /\ exists = "yes"
    /\ pc = "fault"
    /\ error = "KeyError"
    /\ Len(out) = 5
    /\ ~ImageSaved

\* The order of the statistics, with the standard deviation of the MB/s
\* column only.
C6_AmendedOrder ==
    << <<"", "len">>, <<"Size(MB)", "sum">>, <<"Time(s)", "sum">>,
       <<"Throughput(MB/s)", "mean">>, <<"Throughput(Mbps)", "mean">>,
       <<"Throughput(MB/s)", "median">>, <<"Throughput(Mbps)", "median">>,
       <<"Throughput(MB/s)", "min">>, <<"Throughput(Mbps)", "min">>,
       <<"Throughput(MB/s)", "max">>, <<"Throughput(Mbps)", "max">>,
       <<"Throughput(MB/s)", "std">>,
       <<"Time(s)", "mean">>, <<"Time(s)", "min">>, <<"Time(s)", "max">> >>

\* C6 as stated: the finished summary holds the row count and the two sums
\* first, then mean, median, min, max and standard deviation of both
\* throughput columns (ten statistics, in whatever order among them), then
\* mean, min and max of the time.
C6_OrderWithBothStd ==
    SummaryDone =>
        /\ Len(PrintedOrder) = 16
        /\ SubSeq(PrintedOrder, 1, 3)
             = << <<"", "len">>, <<"Size(MB)", "sum">>, <<"Time(s)", "sum">> >>
        /\ { PrintedOrder[i] : i \in 4..13 }
             = { <<c, st>> : c \in {"Throughput(MB/s)", "Throughput(Mbps)"},
                             st \in {"mean", "median", "min", "max", "std"} }
        /\ SubSeq(PrintedOrder, 14, 16)
             = << <<"Time(s)", "mean">>, <<"Time(s)", "min">>, <<"Time(s)", "max">> >>

\* C6, amended: the statistics are printed in the order row count, sum of
\* size, sum of time, then mean, median, min and max each for MB/s and
\* then Mbps, then the standard deviation of the MB/s column only, then
\* mean, min and max of the time.
C6_OrderWithOneStd ==
    /\ IsPrefix(PrintedOrder, C6_AmendedOrder)
    /\ SummaryDone => PrintedOrder = C6_AmendedOrder

\* Reached: a finished summary of a two-row table.
C6_Witness == FullHeader /\ SummaryDone /\ Len(AllFields) = 15 /\ RowCount = 2

\* C7 as stated: every statistic printed has 2 digits after the point, but
\* every statistic of the time column (total, mean, min, max) has 3.
C7_TimeHasThreeDigits ==
    \A i \in 1..Len(AllFields) :
        LET f == AllFields[i]
        IN  (f.stat # "len" /\ f.val # NaN) =>
                Len(f.text.frac) = IF f.col = "Time(s)" THEN 3 ELSE 2

\* C7, amended: every statistic printed has 2 digits after the point, but
\* the mean, min and max of the time column have 3; the total of the time
\* column has 2, the row count is printed as an integer without a point,
\* and a statistic that is NaN is printed as 'nan'.
C7_DigitsPrinted ==
    \A i \in 1..Len(AllFields) :
        LET f == AllFields[i]
        IN  IF f.stat = "len" THEN ~f.text.nan /\ f.text.frac = <<>>
            ELSE IF f.val = NaN THEN f.text.nan
            ELSE /\ ~f.text.nan
                 /\ Len(f.text.frac) =
                      IF f.col = "Time(s)" /\ f.stat \in {"mean", "min", "max"}
                      THEN 3 ELSE 2

\* Reached: a total time printed as x.50 and a mean time printed as x.167.
C7_Witness ==
    /\ FullHeader
    /\ SummaryDone
    /\ LineOf(29).fields[1].text.frac = <<5, 0>>
    /\ LineOf(37).fields[1].text.frac = <<1, 6, 7>>

\* Every value of the MB/s column of the input is the same.
AllEqualTput ==
    LET col == InputColumn("Throughput(MB/s)")
    IN  Len(col) >= 1 /\ \A i \in 1..Len(col) : col[i] = col[1]

\* C8 as stated: for a table of N >= 1 rows whose throughput values all
\* equal c, the standard deviation printed is 0 and the mean printed is c.
C8_StdZeroAnyCount ==
    (FullHeader /\ AllEqualTput /\ HasLine(35)) =>
        /\ LineOf(35).fields[1].val = Int2Rat(0)
        /\ LineOf(31).fields[1].val = InputColumn("Throughput(MB/s)")[1]

\* C8, amended: for a table of N >= 2 rows whose throughput values all
\* equal c, the standard deviation printed is 0 (0.00) and the mean printed
\* is c; for a single row the mean is c and the standard deviation is NaN.
C8_StdZeroFromTwoRows ==
    (FullHeader /\ AllEqualTput /\ HasLine(35)) =>
        /\ LineOf(31).fields[1].val = InputColumn("Throughput(MB/s)")[1]
        /\ RowCount >= 2 =>
             /\ LineOf(35).fields[1].val = Int2Rat(0)
             /\ LineOf(35).fields[1].text =
                  [nan |-> FALSE, neg |-> FALSE, whole |-> 0, frac |-> <<0, 0>>]
        /\ RowCount = 1 =>
             /\ LineOf(35).fields[1].val = NaN
             /\ LineOf(35).fields[1].text.nan

\* Reached: three rows of equal throughput and different sizes, standard deviation 0.
C8_Witness ==
    /\ FullHeader /\ AllEqualTput /\ HasLine(35)
    /\ RowCount = 3
    /\ InputColumn("Size(MB)")[1] # InputColumn("Size(MB)")[2]
    /\ LineOf(35).fields[1].val = Int2Rat(0)

\* C9: analyze_metrics is given the first argument when there is one and
\* 'transfer_metrics.csv' when there is none; later arguments change
\* neither the path given nor the file read.
C9_PathFromFirstArgument ==
    pc # "main" =>
        /\ Len(argv) = 1 => csv_file = "transfer_metrics.csv"
        /\ Len(argv) >= 2 => csv_file = Head(Tail(argv))
        /\ \A i \in 1..Len(opened) : opened[i] = csv_file
        /\ HasLine(16) => LineOf(16).arg = csv_file

\* Reached: two arguments given, the first one read, the run returned.
C9_Witness ==
    /\ Len(argv) = 3
    /\ argv[3] # argv[2]
    /\ opened = <<argv[2]>>
    /\ pc = "done"

\* C10: a missing column is found at its first use.  Without Step alone the
\* whole summary is printed and the run faults at the first plot, before
\* the image is written; without Size(MB) alone the banner and the 'Total
\* steps' line are printed before the fault.
C10_MissingColumnAtFirstUse ==
    /\ LacksOnly("Step") =>
         /\ pc \in {"summary", "plot", "fault"}
         /\ pc = "plot" => idx <= 2
         /\ ~ImageSaved
         /\ pc = "fault" =>
              /\ error = "KeyError"
              /\ OutLines = SummaryLines
              /\ Len(fig) = 1 /\ fig[1].kind = "subplots"
    /\ LacksOnly("Size(MB)") =>
         /\ pc \in {"summary", "fault"}
         /\ pc = "summary" => idx <= 5
         /\ ~ImageSaved
         /\ pc = "fault" =>
              /\ error = "KeyError"
              /\ OutLines = <<24, 25, 26, 27>>
              /\ fig = <<>>

\* Reached: a table without Step faulted after the whole summary.
C10_Witness ==
    /\ LacksOnly("Step")
    /\ pc = "fault"
    /\ SummaryDone
    /\ RowCount = 2

=============================================================================
